---- MODULE Spec2Model ----
(***************************************************************************)
(* Clock/reset generator (_CRG) of the Efinix T8F81 dev kit target,        *)
(* litex_boards/targets/efinix_t8f81_dev_kit.py.                           *)
(*                                                                         *)
(* One step of the model is one rising edge of clk33 (the "rst" clock      *)
(* domain, reset_less).  A state holds the values of the signals during    *)
(* one clock period, after the combinational logic has settled:            *)
(*   inputs      rst (soft reset request), rst_n (user_btn 0, active low)  *)
(*   register    count (the WaitTimer's counter)                           *)
(*   comb        done, rst_pulse, pll_reset                                *)
(*   PLL         pll_cnt, locked ; cd_sys reset synchroniser sys_sync      *)
(*   clock       clk33_par, the parity of the number of clk33 edges so far *)
(* The remaining variables are history variables used by the properties;   *)
(* hold_len is the number of ticks, up to TimerTicks, for which rst has     *)
(* been high without interruption before the current tick.                 *)
(*                                                                         *)
(* A second specification, BuildSpec, follows main(): BaseSoC elaboration   *)
(* (timer duration, rom region, CPU reset address) and the build, load and *)
(* flash steps.  In Spec the design has been elaborated with the default   *)
(* arguments and only the clock ticks.                                     *)
(*                                                                         *)
(* WaitTimer is litex.gen.genlib.misc.WaitTimer, instantiated at line 43:  *)
(*     count = Signal(bits_for(t), reset=t)                                *)
(*     self.comb += self.done.eq(count == 0)                               *)
(*     self.sync += If(self.wait,                                          *)
(*                     If(~self.done, count.eq(count - 1))                 *)
(*                  ).Else(count.eq(count.reset))                          *)
(* i.e. it counts down while wait is high and reloads while wait is low.   *)
(***************************************************************************)
EXTENDS Integers, Naturals, Sequences, FiniteSets, TLC

\* Duration t of the reset timer in clk33 ticks, scaled down for checking
\* (the reference design has int(25e-6 * 33.333e6) ticks).
TimerTicks == 4

\* Number of ticks the PLL needs with its reset deasserted before it locks.
LockLatency == 2

\* Flip-flops of the AsyncResetSynchronizer that drives cd_sys.rst.
SyncStages == 2

\* Saturation value of the pulse-length history counter.
PulseCap == 2 * TimerTicks + 1

VARIABLES rst, rst_n, count, done, rst_pulse, pll_reset, pll_cnt, locked,
          sys_sync, edge_age, prev_gap, pulse_len, clear_len,
          cyc, cyc_pulses, cyc_locks, clk33_par, hold_len,
          pc, args, soc, built, loaded, flashed

\* The signals of the _CRG and their history.
hwvars == <<rst, rst_n, count, done, rst_pulse, pll_reset, pll_cnt, locked,
            sys_sync, edge_age, prev_gap, pulse_len, clear_len,
            cyc, cyc_pulses, cyc_locks, clk33_par, hold_len>>

\* The state of main(): its position, the parsed command line, the
\* elaborated SoC and what the programmer has written.
cfgvars == <<pc, args, soc, built, loaded, flashed>>

vars == <<hwvars, cfgvars>>

Min(a, b) == IF a < b THEN a ELSE b

----------------------------------------------------------------------------
\* The design.

\* Mutant: the counter is never reloaded when wait is low.
WaitTimerNoReload(c, wait) == IF wait /\ c # 0 THEN c - 1 ELSE c

\* Mutant: the timer reloads while wait is high and counts while it is low.
WaitTimerRearmOnWait(c, wait) ==
    IF ~wait THEN (IF c # 0 THEN c - 1 ELSE c) ELSE TimerTicks

\* Mutant: the counter reloads one tick short.
WaitTimerShort(c, wait) ==
    IF wait THEN (IF c # 0 THEN c - 1 ELSE c) ELSE TimerTicks - 1

\* Mutant: the ~done guard is missing and the counter starts over at zero.
WaitTimerWrap(c, wait) ==
    IF wait THEN (IF c # 0 THEN c - 1 ELSE TimerTicks) ELSE TimerTicks

\* Mutant: the timer is left in the sys clock domain and is reloaded while
\* cd_sys is in reset.
WaitTimerInSys(c, wait) ==
    IF sys_sync > 0 \/ ~wait THEN TimerTicks
    ELSE IF c # 0 THEN c - 1 ELSE c

\* Mutant: the user button also holds the timer.
WaitTimerButton(c, wait) ==
    IF wait /\ rst_n THEN (IF c # 0 THEN c - 1 ELSE c) ELSE TimerTicks

\* WaitTimer sync block: next value of count from count and wait.
WaitTimerNext(c, wait) ==
    IF wait THEN (IF c # 0 THEN c - 1 ELSE c) ELSE TimerTicks

\* Mutant: done is raised one count early.
TimerDoneEarly(c) == c <= 1

\* WaitTimer comb block: done.eq(count == 0).
TimerDone(c) == c = 0

\* Mutant: the pulse is gated instead of XOR-ed.
RstPulseAnd(r, d) == r /\ ~d

\* self.rst_pulse.eq(self.rst ^ reset_timer.done)
RstPulseOf(r, d) == r # d

\* Mutant: the user button is left out of the PLL reset.
PllResetNoButton(b, p) == p

\* Mutant: the user button is taken as active high.
PllResetActiveHigh(b, p) == b \/ p

\* Mutant: the two reset sources are and-ed.
PllResetAnd(b, p) == ~b /\ p

\* pll.reset.eq(~rst_n | self.rst_pulse)
PllResetOf(b, p) == ~b \/ p

\* PLL hard macro: ticks its reset has been low, saturating at LockLatency.
PllCntNext(c, reset) == IF reset THEN 0 ELSE Min(c + 1, LockLatency)

\* PLL hard macro: locked is dropped asynchronously by reset and is raised
\* once the reset has been low for LockLatency ticks.
PllLocked(c, reset) == ~reset /\ c >= LockLatency

\* Mutant: create_clkout(..., with_reset=False).
SysSyncNoReset(s, lck) == 0

\* create_clkout(self.cd_sys, ..., with_reset=True):
\* AsyncResetSynchronizer(cd_sys, ~pll.locked), preset asynchronously while
\* the PLL is not locked, released SyncStages ticks after lock.
SysSyncNext(s, lck) == IF ~lck THEN SyncStages ELSE IF s > 0 THEN s - 1 ELSE 0

\* cd_sys.rst
cd_sys_rst == sys_sync > 0

\* The PLL state machine of the design notes.
PLLState == IF locked THEN "LOCKED"
            ELSE IF pll_reset THEN "UNLOCKED" ELSE "LOCKING"

\* The system is fully locked and idle.
IdleLocked == ~rst /\ rst_n /\ ~rst_pulse /\ locked

----------------------------------------------------------------------------
\* History of one soft-reset cycle started from the locked, idle state.

CycNext(r, b) ==
    IF IdleLocked /\ r /\ b THEN "asserted"
    ELSE IF cyc = "none" THEN "none"
    ELSE IF ~b THEN "dirty"
    ELSE IF cyc = "asserted" THEN (IF r THEN "asserted" ELSE "released")
    ELSE IF cyc = "released" THEN (IF r THEN "dirty" ELSE "released")
    ELSE "dirty"

CountNext(n, start, edge) ==
    IF start THEN (IF edge THEN 1 ELSE 0)
    ELSE IF edge THEN Min(n + 1, 2) ELSE n

----------------------------------------------------------------------------
\* Elaboration and main().

\* Platform.default_clk_freq, the frequency of clk33 in Hz.
default_clk_freq == 33333000

\* Mutant: the timer duration is taken from sys_clk_freq.
ResetTimerTicksSys(ref_clk_freq, sys_clk_freq) ==
    (25 * sys_clk_freq) \div 1000000

\* WaitTimer(25e-6*platform.default_clk_freq), cast to int by the timer.
ResetTimerTicks(ref_clk_freq, sys_clk_freq) ==
    (25 * ref_clk_freq) \div 1000000

\* Value of one digit character.
HexDigits == <<"0", "1", "2", "3", "4", "5", "6", "7", "8", "9",
               "a", "b", "c", "d", "e", "f">>

DigitVal(ch) == (CHOOSE i \in 1..16 : HexDigits[i] = ch) - 1

RECURSIVE ParseDigits(_, _, _)
ParseDigits(s, base, acc) ==
    IF s = <<>> THEN acc
    ELSE ParseDigits(Tail(s), base, acc * base + DigitVal(Head(s)))

\* int(s, 0): the base is given by the prefix 0x, 0o or 0b, else it is 10.
IntBase0(s) ==
    IF Len(s) >= 2 /\ s[1] = "0" /\ s[2] = "x"
    THEN ParseDigits(SubSeq(s, 3, Len(s)), 16, 0)
    ELSE IF Len(s) >= 2 /\ s[1] = "0" /\ s[2] = "o"
    THEN ParseDigits(SubSeq(s, 3, Len(s)), 8, 0)
    ELSE IF Len(s) >= 2 /\ s[1] = "0" /\ s[2] = "b"
    THEN ParseDigits(SubSeq(s, 3, Len(s)), 2, 0)
    ELSE ParseDigits(s, 10, 0)

\* --bios-flash-offset default "0x40000".
DefaultOffsetArg == <<"0", "x", "4", "0", "0", "0", "0">>

\* Values of --bios-flash-offset that are tried.
OffsetArgs ==
    { DefaultOffsetArg,
      <<"0", "x", "0">>,
      <<"0", "x", "8", "0", "0", "0">>,
      <<"6", "5", "5", "3", "6">>,
      <<"0", "o", "1", "0", "0", "0", "0">>,
      <<"0", "b", "1", "0", "0", "0", "0", "0", "0", "0", "0", "0", "0">> }

\* Values of --sys-clk-freq that are tried; the first is the default.
SysClkFreqs == {33333000, 25000000, 50000000}

\* Origins the bus may give the "spiflash" region.
SpiFlashOrigins == {0, 268435456}

\* The SoC before BaseSoC has run.
NoSoC == [timer_t |-> 0, spiflash_origin |-> 0, rom_origin |-> 0,
          cpu_reset_address |-> 0]

\* Mutant: the rom region is put at the start of the SPI flash.
RomOriginAtFlashStart(spiflash_origin, bios_flash_offset) == spiflash_origin

\* origin = self.bus.regions["spiflash"].origin + bios_flash_offset
RomOrigin(spiflash_origin, bios_flash_offset) ==
    spiflash_origin + bios_flash_offset

\* BaseSoC.__init__: the _CRG with its reset timer, the SPI flash, the rom
\* region and the CPU reset address.
BaseSoC(bios_flash_offset, sys_clk_freq, spiflash_origin) ==
    LET rom == RomOrigin(spiflash_origin, bios_flash_offset)
    IN  [timer_t |-> ResetTimerTicks(default_clk_freq, sys_clk_freq),
         spiflash_origin |-> spiflash_origin,
         rom_origin |-> rom,
         cpu_reset_address |-> rom]

\* prog.add_hex(0, bitstream); prog.load()
LoadItems == {<<0, "bitstream">>}

\* prog.add_hex(0, bitstream); prog.add_bin(offset, bios); prog.flash()
FlashItems(offset_arg) ==
    {<<0, "bitstream">>, <<IntBase0(offset_arg), "bios">>}

\* The command line main() has when nothing is given.
DefaultArgs == [sys_clk_freq |-> 33333000, bios_flash_offset |-> DefaultOffsetArg,
                build |-> FALSE, load |-> FALSE, flash |-> FALSE]

----------------------------------------------------------------------------
\* Power-up state of the _CRG.
HwInit ==
    /\ rst \in BOOLEAN
    /\ rst_n \in BOOLEAN
    /\ count = TimerTicks
    /\ done = TimerDone(count)
    /\ rst_pulse = RstPulseOf(rst, done)
    /\ pll_reset = PllResetOf(rst_n, rst_pulse)
    /\ pll_cnt = 0
    /\ locked = PllLocked(pll_cnt, pll_reset)
    /\ sys_sync = SyncStages
    /\ edge_age = TimerTicks
    /\ prev_gap = TimerTicks
    /\ pulse_len = IF rst_pulse THEN 1 ELSE 0
    /\ clear_len = 0
    /\ cyc = "none"
    /\ cyc_pulses = 0
    /\ cyc_locks = 0
    /\ clk33_par = 0
    /\ hold_len = 0

Init ==
    /\ HwInit
    /\ pc = "running"
    /\ args = DefaultArgs
    /\ soc = BaseSoC(IntBase0(args.bios_flash_offset), args.sys_clk_freq, 0)
    /\ built = FALSE
    /\ loaded = {}
    /\ flashed = {}

\* One rising edge of clk33; r and b are the values the inputs take in the
\* new clock period.
Tick(r, b) ==
    /\ rst' = r
    /\ rst_n' = b
    /\ count' = WaitTimerNext(count, rst)
    /\ done' = TimerDone(count')
    /\ rst_pulse' = RstPulseOf(rst', done')
    /\ pll_reset' = PllResetOf(rst_n', rst_pulse')
    /\ pll_cnt' = PllCntNext(pll_cnt, pll_reset)
    /\ locked' = PllLocked(pll_cnt', pll_reset')
    /\ sys_sync' = SysSyncNext(sys_sync, locked')
    /\ edge_age' = IF ~rst /\ r THEN 0 ELSE Min(edge_age + 1, TimerTicks)
    /\ prev_gap' = IF ~rst /\ r THEN Min(edge_age + 1, TimerTicks) ELSE prev_gap
    /\ pulse_len' = IF rst_pulse' THEN Min(pulse_len + 1, PulseCap) ELSE 0
    /\ clear_len' = IF ~rst_pulse /\ rst_n
                    THEN Min(clear_len + 1, LockLatency) ELSE 0
    /\ cyc' = CycNext(r, b)
    /\ cyc_pulses' = CountNext(cyc_pulses, IdleLocked /\ r /\ b,
                               ~rst_pulse /\ rst_pulse')
    /\ cyc_locks' = CountNext(cyc_locks, IdleLocked /\ r /\ b,
                              ~locked /\ locked')
    /\ clk33_par' = 1 - clk33_par
    /\ hold_len' = IF rst THEN Min(hold_len + 1, TimerTicks) ELSE 0
    /\ UNCHANGED cfgvars

Next == \E r \in BOOLEAN, b \in BOOLEAN : Tick(r, b)

Spec == Init /\ [][Next]_vars

\* The reference clock never stops: every tick changes clk33_par, so weak
\* fairness of Next gives infinitely many ticks.
LiveSpec == Init /\ [][Next]_vars /\ WF_vars(Next)

\* main(), started with some command line; the board is at power-up.
BuildInit ==
    /\ HwInit
    /\ ~rst /\ rst_n
    /\ pc = "soc"
    /\ args \in [sys_clk_freq : SysClkFreqs, bios_flash_offset : OffsetArgs,
                 build : BOOLEAN, load : BOOLEAN, flash : BOOLEAN]
    /\ soc = NoSoC
    /\ built = FALSE
    /\ loaded = {}
    /\ flashed = {}

\* soc = BaseSoC(bios_flash_offset = int(args.bios_flash_offset, 0), ...)
main_BaseSoC(origin) ==
    /\ pc = "soc"
    /\ soc' = BaseSoC(IntBase0(args.bios_flash_offset), args.sys_clk_freq,
                      origin)
    /\ pc' = "build"
    /\ UNCHANGED <<args, built, loaded, flashed, hwvars>>

\* if args.build: builder.build(...)
main_build ==
    /\ pc = "build"
    /\ built' = args.build
    /\ pc' = "load"
    /\ UNCHANGED <<args, soc, loaded, flashed, hwvars>>

\* if args.load: ...
main_load ==
    /\ pc = "load"
    /\ loaded' = IF args.load THEN LoadItems ELSE loaded
    /\ pc' = "flash"
    /\ UNCHANGED <<args, soc, built, flashed, hwvars>>

\* if args.flash: ...
main_flash ==
    /\ pc = "flash"
    /\ flashed' = IF args.flash THEN FlashItems(args.bios_flash_offset)
                   ELSE flashed
    /\ pc' = "done"
    /\ UNCHANGED <<args, soc, built, loaded, hwvars>>

BuildNext ==
    \/ \E origin \in SpiFlashOrigins : main_BaseSoC(origin)
    \/ main_build
    \/ main_load
    \/ main_flash

BuildSpec == BuildInit /\ [][BuildNext]_vars

TypeOK ==
    /\ rst \in BOOLEAN /\ rst_n \in BOOLEAN
    /\ count \in 0..TimerTicks
    /\ done \in BOOLEAN /\ rst_pulse \in BOOLEAN /\ pll_reset \in BOOLEAN
    /\ pll_cnt \in 0..LockLatency /\ locked \in BOOLEAN
    /\ sys_sync \in 0..SyncStages
    /\ edge_age \in 0..TimerTicks /\ prev_gap \in 0..TimerTicks
    /\ pulse_len \in 0..PulseCap /\ clear_len \in 0..LockLatency
    /\ cyc \in {"none", "asserted", "released", "dirty"}
    /\ cyc_pulses \in 0..2 /\ cyc_locks \in 0..2
    /\ clk33_par \in 0..1
    /\ hold_len \in 0..TimerTicks
    /\ pc \in {"running", "soc", "build", "load", "flash", "done"}
    /\ args \in [sys_clk_freq : SysClkFreqs, bios_flash_offset : OffsetArgs,
                 build : BOOLEAN, load : BOOLEAN, flash : BOOLEAN]
    /\ built \in BOOLEAN
    /\ loaded \subseteq LoadItems
    /\ soc.cpu_reset_address = soc.rom_origin

----------------------------------------------------------------------------
\* Properties.

\* C1: whenever rst rises, rst_pulse is high at the rising edge and at each
\* of the TimerTicks - 1 ticks that follow it, also when rst is released
\* before the timer is done.
C1_MinPulseWidth == edge_age < TimerTicks => rst_pulse

\* C2: when rst rises again less than TimerTicks ticks after its previous
\* rising edge, rst_pulse has been high at every tick since that previous
\* edge, and it stays high for TimerTicks ticks from the new edge.
C2_ReassertNoGlitch ==
    (prev_gap < TimerTicks /\ edge_age < TimerTicks) =>
        /\ rst_pulse
        /\ edge_age = 0 => pulse_len >= prev_gap + 1

\* C3: the PLL is not locked in any state where rst_pulse is high or the
\* user button is pressed (rst_n low).
C3_NoLockInReset == (rst_pulse \/ ~rst_n) => (~locked /\ PLLState # "LOCKED")

\* C3 witness: the button is pressed while the PLL was locked.
C3_Witness == ~rst_n /\ ~rst_pulse /\ pll_cnt = LockLatency /\ ~locked

\* C4: cd_sys is in reset in every state where the PLL is UNLOCKED or
\* LOCKING.
C4_SysHeldInReset == PLLState # "LOCKED" => cd_sys_rst

\* C4 witness: the PLL is LOCKING after a soft-reset pulse and cd_sys is in
\* reset.
C4_Witness == PLLState = "LOCKING" /\ cd_sys_rst /\ cyc = "released"

\* C5: at every tick where locked rises, rst_pulse was low and rst_n high
\* in each of the LockLatency ticks before it.
C5_LockAfterLatency ==
    [][(~locked /\ locked') => clear_len' >= LockLatency]_vars

\* C5 witness: locked has just risen, after a soft-reset pulse.
C5_Witness ==
    locked /\ sys_sync = SyncStages - 1 /\ clear_len = LockLatency
           /\ cyc = "released"

\* C6: two rising edges of rst that are d < TimerTicks ticks apart give one
\* interval of rst_pulse that is high from the first edge until at least
\* TimerTicks ticks after the second, d + TimerTicks ticks in all.
C6_OverlapOnePulse ==
    (prev_gap < TimerTicks /\ edge_age < TimerTicks) =>
        pulse_len >= prev_gap + edge_age + 1

\* C7: a soft-reset request made in the locked, idle state and released
\* brings the system back to that same state after exactly one pulse of
\* rst_pulse and one rise of locked.
C7_OneCycle ==
    (cyc = "released" /\ IdleLocked) =>
        /\ cyc_pulses = 1 /\ cyc_locks = 1
        /\ count = TimerTicks /\ pll_cnt = LockLatency

\* C8: if from some tick on rst stays low and rst_n stays high, then from
\* some tick on rst_pulse stays low and the PLL stays locked.
C8_Recovery == (<>[](~rst /\ rst_n)) => <>[](~rst_pulse /\ locked)

\* C8 witness: back in the locked, idle state after a soft-reset pulse.
C8_Witness == IdleLocked /\ cyc = "released" /\ cyc_pulses >= 1

\* C9: rst_pulse is rst XOR done, done being the output of the timer whose
\* wait input is rst.
C9_PulseIsXor == /\ done = (count = 0)
                 /\ rst_pulse = ((rst /\ ~done) \/ (~rst /\ done))

\* C9 witness: rst is held and the timer is done, so that the XOR is low.
C9_Witness == rst /\ done /\ ~rst_pulse

\* C10: the PLL reset is rst_pulse OR NOT rst_n, for all four values of the
\* two inputs.
C10_PllReset ==
    /\ (rst_n /\ ~rst_pulse) => ~pll_reset
    /\ (~rst_n /\ ~rst_pulse) => pll_reset
    /\ (rst_n /\ rst_pulse) => pll_reset
    /\ (~rst_n /\ rst_pulse) => pll_reset

\* C10 witness: the button alone asserts the PLL reset of a PLL that had
\* its reset low in the tick before.
C10_Witness == ~rst_n /\ ~rst_pulse /\ pll_reset /\ pll_cnt > 0

C13_HeldPulseExact ==
    /\ (rst /\ hold_len < TimerTicks) => rst_pulse
    /\ (rst /\ hold_len >= TimerTicks) => ~rst_pulse

\* C13 witness: rst is still held after a pulse of exactly TimerTicks ticks
\* has ended.
C13_Witness ==
    rst /\ hold_len = TimerTicks /\ ~rst_pulse /\ edge_age = TimerTicks
        /\ cyc = "asserted" /\ cyc_pulses = 1

\* C14: count stays within 0..TimerTicks, done is high exactly when count is
\* zero, and once done is high it stays high for as long as the timer is
\* not reloaded (wait stays high).
C14_SaturatingSticky ==
    /\ [](count \in 0..TimerTicks /\ done = (count = 0))
    /\ [][(done /\ rst) => (done' /\ count' = 0)]_vars

\* C14 witness: done has stayed high long enough for the PLL to lock while
\* rst is still held.
C14_Witness == done /\ rst /\ locked /\ count = 0

\* C15: done in the new tick is fixed by count and wait of the tick before,
\* whatever value rst takes in the new tick.
C15_DoneRegistered == [][done' = (rst /\ count <= 1)]_vars

\* C15 witness: rst has just been released and done is still high.
C15_Witness == done /\ ~rst /\ rst_pulse /\ hold_len = TimerTicks

\* C16: the timer is not held or reloaded by the PLL reset, by loss of lock
\* or by the reset of cd_sys: while rst is high it counts down at every tick
\* also when the PLL or cd_sys is in reset, and count goes up only in a tick
\* where rst is low.
C16_TimerFrame ==
    [][/\ (rst /\ count > 0) => count' = count - 1
       /\ (rst /\ count = 0) => count' = 0
       /\ count' > count => ~rst]_vars

\* C16 witness: the timer is half way down while the PLL and cd_sys are in
\* reset.
C16_Witness ==
    rst /\ count > 0 /\ count < TimerTicks /\ pll_reset /\ ~locked
        /\ cd_sys_rst

\* C17: count, done and rst_pulse are functions of the rst sequence alone
\* (of rst and hold_len), so two runs that differ only in rst_n agree on
\* them at every tick.
C17_ButtonOnlyPll ==
    /\ count = TimerTicks - hold_len
    /\ done = (hold_len = TimerTicks)
    /\ rst_pulse = (rst # (hold_len = TimerTicks))

\* C17 witness: the button is pressed while the timer is counting.
C17_Witness ==
    ~rst_n /\ rst /\ count > 0 /\ count < TimerTicks /\ rst_pulse

\* C11: the reset timer lasts 833 ticks, give or take one: 25 microseconds
\* of the 33.333 MHz reference clock, truncated, whatever sys_clk_freq is.
C11_TimerTicks833 ==
    pc # "soc" => (soc.timer_t >= 832 /\ soc.timer_t <= 834)

\* C11 witness: a SoC elaborated with a sys_clk_freq other than the
\* reference clock has a timer of 833 ticks.
C11_Witness ==
    pc = "done" /\ args.sys_clk_freq # default_clk_freq /\ soc.timer_t = 833

\* C18: for every bios_flash_offset the CPU reset address is the origin of
\* the rom region, which is the SPI flash origin plus the offset; flash
\* writes the bitstream at 0 and the BIOS at that offset of the flash, so
\* the reset address is that of the first byte of the BIOS; load writes the
\* bitstream only.
C18_BootImage ==
    /\ pc # "soc" =>
         /\ soc.cpu_reset_address = soc.rom_origin
         /\ soc.rom_origin =
              soc.spiflash_origin + IntBase0(args.bios_flash_offset)
    /\ pc = "done" =>
         /\ loaded = (IF args.load THEN {<<0, "bitstream">>} ELSE {})
         /\ flashed =
              (IF args.flash
               THEN {<<0, "bitstream">>,
                     <<soc.cpu_reset_address - soc.spiflash_origin, "bios">>}
               ELSE {})

\* C18 witness: a flash with an offset other than the default, in a SoC
\* whose SPI flash is not at address 0.
C18_Witness ==
    /\ pc = "done" /\ args.flash /\ args.load
    /\ args.bios_flash_offset # DefaultOffsetArg
    /\ soc.spiflash_origin > 0
    /\ <<soc.cpu_reset_address - soc.spiflash_origin, "bios">> \in flashed
    /\ soc.cpu_reset_address > soc.spiflash_origin

====
